---- MODULE Spec2Model ----
(***************************************************************************)
(* mail-exchange: the processing pipeline of src/index.ts                  *)
(* (dedup store, access filter, rule matcher, per-recipient delivery with  *)
(* retry, outcome aggregation, task history) and the IMAP listener that    *)
(* presents messages to it.                                                *)
(*                                                                         *)
(* JavaScript runs each callback to its next await atomically, so every    *)
(* action below is one such segment: from the start of a callback (or the  *)
(* resumption after an await) to the next await or return.                 *)
(*                                                                         *)
(* Conventions: a JS string that the code inspects character by character  *)
(* (subject, tag, sender address, allow-list entry) is a sequence of       *)
(* one-character strings; other strings are TLA+ strings.  An optional     *)
(* value is a sequence of length 0 (undefined) or 1.                       *)
(***************************************************************************)
EXTENDS Integers, Sequences, FiniteSets, TLC

VARIABLES
    config,         \* Config: rules, allowedSenders, retryCount
    inbox,          \* the mailbox: uid -> parsed mail (fixed after Init)
    flags,          \* uid -> "absent" | "unseen" | "seen" (kept by the IMAP server)
    imaps,          \* the Imap instances startImapListener has made, in order
    inflight,       \* uid -> copies handed to simpleParser, callback pending
    flagging,       \* uid -> imap.addFlags requests the server has not answered
    forwardedIds,   \* const forwardedIds = new Set<string>()
    file,           \* content of FORWARDED_FILE, a sequence of tokens (id or "\n")
    tasks,          \* const tasks: ForwardTask[]
    taskId,         \* let taskId = 0
    runs,           \* the processEmail invocations: slot -> activation record
    synthCount,     \* how many fallback ids Date.now()/Math.random() have produced
    restarts,       \* history: process restarts so far
    fanouts,        \* history: messageId of the mail -> forwardEmail calls so far
    reconnects      \* pending setTimeout(startImapListener, 5000)

vars == << config, inbox, flags, imaps, inflight, flagging, forwardedIds, file,
           tasks, taskId, runs, synthCount, restarts, fanouts, reconnects >>

----------------------------------------------------------------------------
(* Bounds of the model.  MaxRuns is the number of activation records of    *)
(* processEmail the model keeps; no step waits for one: the mailboxes below *)
(* never have more copies of their messages with the parser than that.      *)

MaxRuns == 4
MaxRestarts == 1
MaxListeners == 3

(* Constants of the program *)

DefaultRetryCount == 3
BackoffMs == 1000
HistoryCap == 100

Slots == 1..MaxRuns

----------------------------------------------------------------------------
(* Strings *)

UpperCase == << "A","B","C","D","E","F","G","H","I","J","K","L","M",
                "N","O","P","Q","R","S","T","U","V","W","X","Y","Z" >>
LowerCase == << "a","b","c","d","e","f","g","h","i","j","k","l","m",
                "n","o","p","q","r","s","t","u","v","w","x","y","z" >>

\* String.prototype.toLowerCase, one character
ToLowerChar(c) ==
    IF \E k \in 1..Len(UpperCase) : UpperCase[k] = c
    THEN LowerCase[CHOOSE k \in 1..Len(UpperCase) : UpperCase[k] = c]
    ELSE c

\* String.prototype.toLowerCase
ToLowerCase(s) == [k \in 1..Len(s) |-> ToLowerChar(s[k])]

\* String.prototype.includes
Includes(s, t) ==
    \E k \in 0..(Len(s) - Len(t)) : SubSeq(s, k + 1, k + Len(t)) = t

NL == "\n"

\* the identifier is one of the tokens written to the file
InFile(f, id) == \E n \in 1..Len(f) : f[n] = id

----------------------------------------------------------------------------
(* Dedup store *)

\* String.prototype.trim on the file content: newlines are its only whitespace
RECURSIVE TrimLeft(_)
TrimLeft(f) == IF f # << >> /\ Head(f) = NL THEN TrimLeft(Tail(f)) ELSE f

RECURSIVE TrimRight(_)
TrimRight(f) ==
    IF f # << >> /\ f[Len(f)] = NL THEN TrimRight(SubSeq(f, 1, Len(f) - 1)) ELSE f

Trim(f) == TrimRight(TrimLeft(f))

\* data.split("\n"): a line starts at the first token and after every "\n",
\* ends before the next "\n" or at the end of data, and is the concatenation
\* of its tokens
LineStarts(data) == { a \in 1..(Len(data) + 1) : a = 1 \/ data[a - 1] = NL }

LineEnd(data, a) ==
    CHOOSE b \in (a - 1)..Len(data) :
        /\ b = Len(data) \/ data[b + 1] = NL
        /\ \A c \in a..b : data[c] # NL

RECURSIVE Join(_, _, _)
Join(data, a, b) == IF a > b THEN "" ELSE data[a] \o Join(data, a + 1, b)

\* the elements of data.split("\n")
SplitLines(data) == { Join(data, a, LineEnd(data, a)) : a \in LineStarts(data) }

\* loadForwardedIds: the set the file loads to
LoadForwardedIds(f) ==
    LET data == Trim(f)
    IN  IF data # << >> THEN SplitLines(data) ELSE {}

\* variant: the line terminator is left out
AppendNoNewline(f, messageId) == f \o << messageId >>

\* variant: the file is written anew
AppendOverwrite(f, messageId) == << messageId, NL >>

\* appendFileSync(FORWARDED_FILE, `${messageId}\n`)
AppendForwardedId(f, messageId) == f \o << messageId, NL >>

\* variant: the lookup never finds the identifier
IsAlreadyForwardedNever(mail, ids) == FALSE

\* isAlreadyForwarded
IsAlreadyForwarded(mail, ids) ==
    IF mail.messageId # "" THEN mail.messageId \in ids ELSE FALSE

\* variant: one fallback identifier for every message without one
GetMessageIdFixed(mail, fresh) ==
    IF mail.messageId # "" THEN mail.messageId ELSE "t0"

\* getMessageId; fresh stands for `${Date.now()}-${Math.random()}`
GetMessageId(mail, fresh) ==
    IF mail.messageId # "" THEN mail.messageId ELSE fresh

FreshId(n) == "t" \o ToString(n)

----------------------------------------------------------------------------
(* Access filter and rule matcher *)

\* variant: the allow-list entries are compared as written
IsSenderAllowedAsWritten(email, cfg) ==
    IF Len(cfg.allowedSenders) = 0 THEN TRUE
    ELSE LET addr == ToLowerCase(email)
         IN  \E k \in 1..Len(cfg.allowedSenders) :
                 Includes(addr, cfg.allowedSenders[k])

\* variant: every sender is allowed
IsSenderAllowedAlways(email, cfg) == TRUE

\* isSenderAllowed
IsSenderAllowed(email, cfg) ==
    IF Len(cfg.allowedSenders) = 0 THEN TRUE
    ELSE LET addr == ToLowerCase(email)
         IN  \E k \in 1..Len(cfg.allowedSenders) :
                 Includes(addr, ToLowerCase(cfg.allowedSenders[k]))

\* variant: the last rule whose tag is in the subject
MatchFromLast(lowerSubject, rules, k) ==
    LET hits == { j \in k..Len(rules) :
                      Includes(lowerSubject, ToLowerCase(rules[j].tag)) }
    IN  IF hits = {} THEN << >>
        ELSE << rules[CHOOSE j \in hits : \A h \in hits : h <= j] >>

\* matchRule: the linear scan from rule k on; << >> is null
RECURSIVE MatchFrom(_, _, _)
MatchFrom(lowerSubject, rules, k) ==
    IF k > Len(rules) THEN << >>
    ELSE IF Includes(lowerSubject, ToLowerCase(rules[k].tag)) THEN << rules[k] >>
    ELSE MatchFrom(lowerSubject, rules, k + 1)

\* variant: the first rule when no tag is in the subject
MatchRuleFallback(subject, cfg) ==
    LET found == MatchFrom(ToLowerCase(subject), cfg.rules, 1)
    IN  IF found = << >> /\ cfg.rules # << >> THEN << cfg.rules[1] >> ELSE found

\* matchRule
MatchRule(subject, cfg) == MatchFrom(ToLowerCase(subject), cfg.rules, 1)

NoSubject == << "(","n","o"," ","s","u","b","j","e","c","t",")" >>

\* const subject = mail.subject || "(no subject)"
SubjectOf(mail) == IF mail.subject # << >> THEN mail.subject ELSE NoSubject

\* const maxAttempts = config.retryCount ?? 3
MaxAttempts(cfg) ==
    IF cfg.retryCount = << >> THEN DefaultRetryCount ELSE cfg.retryCount[1]

----------------------------------------------------------------------------
(* Delivery engine: sendToRecipient, one activation per recipient.          *)
(* st is the await the activation is suspended at: "sending" (sendMail     *)
(* outstanding), "waiting" (the backoff setTimeout pending) or "done"      *)
(* (returned, result holds the RecipientResult).  calls, outcomes and      *)
(* waits are history: the transport calls made, what the transport         *)
(* answered, and the time each backoff timer actually ran; rank is the     *)
(* position of the activation among those of its fan-out in the order in   *)
(* which they returned.                                                    *)

Errors == { "e1", "e2" }

\* variant: the attempt is counted from zero
SuccessResultZeroBased(email, attempt) ==
    [email |-> email, success |-> TRUE, error |-> << >>, attempts |-> attempt - 1]

\* { email, success: true, attempts: attempt }
SuccessResult(email, attempt) ==
    [email |-> email, success |-> TRUE, error |-> << >>, attempts |-> attempt]

\* { email, success: false, error: lastError, attempts: maxAttempts }
FailedResult(email, lastError, maxAttempts) ==
    [email |-> email, success |-> FALSE, error |-> << lastError >>,
     attempts |-> maxAttempts]

\* variant: the same delay before every retry
BackoffFlat(attempt) == BackoffMs

\* 1000 * attempt
Backoff(attempt) == BackoffMs * attempt

\* sendToRecipient from its call to its first await
SendToRecipient(email, maxAttempts) ==
    IF 1 <= maxAttempts
    THEN [email |-> email, st |-> "sending", attempt |-> 1, lastError |-> "",
          delay |-> 0, waited |-> 0, result |-> << >>,
          calls |-> 1, outcomes |-> << >>, waits |-> << >>, rank |-> 0]
    ELSE [email |-> email, st |-> "done", attempt |-> 1, lastError |-> "",
          delay |-> 0, waited |-> 0,
          result |-> << FailedResult(email, "", maxAttempts) >>,
          calls |-> 0, outcomes |-> << >>, waits |-> << >>, rank |-> 0]

\* await transporter.sendMail(...) resolved: return the success result
OnSendOk(p) ==
    [p EXCEPT !.st = "done",
              !.result = << SuccessResult(p.email, p.attempt) >>,
              !.outcomes = Append(@, "ok")]

\* variant: lastError keeps the first error
OnSendFailFirstError(p, err, maxAttempts) ==
    LET kept == IF p.lastError # "" THEN p.lastError ELSE err
    IN  IF p.attempt < maxAttempts
        THEN [p EXCEPT !.st = "waiting", !.lastError = kept,
                       !.delay = Backoff(p.attempt), !.waited = 0,
                       !.outcomes = Append(@, err)]
        ELSE [p EXCEPT !.st = "done", !.lastError = kept,
                       !.result = << FailedResult(p.email, kept, maxAttempts) >>,
                       !.outcomes = Append(@, err)]

\* variant: the loop goes round once more
OnSendFailOneMore(p, err, maxAttempts) ==
    IF p.attempt <= maxAttempts
    THEN [p EXCEPT !.st = "waiting", !.lastError = err,
                   !.delay = Backoff(p.attempt), !.waited = 0,
                   !.outcomes = Append(@, err)]
    ELSE [p EXCEPT !.st = "done", !.lastError = err,
                   !.result = << FailedResult(p.email, err, maxAttempts) >>,
                   !.outcomes = Append(@, err)]

\* await transporter.sendMail(...) rejected with err: the catch block, then
\* either the backoff timer or the end of the loop
OnSendFail(p, err, maxAttempts) ==
    IF p.attempt < maxAttempts
    THEN [p EXCEPT !.st = "waiting", !.lastError = err,
                   !.delay = Backoff(p.attempt), !.waited = 0,
                   !.outcomes = Append(@, err)]
    ELSE [p EXCEPT !.st = "done", !.lastError = err,
                   !.result = << FailedResult(p.email, err, maxAttempts) >>,
                   !.outcomes = Append(@, err)]

\* the backoff timer fired: attempt++ and the next sendMail
OnTimer(p) ==
    [p EXCEPT !.st = "sending", !.attempt = @ + 1, !.calls = @ + 1,
              !.delay = 0, !.waited = 0, !.waits = Append(@, p.waited)]

\* Each call of sendToRecipient has its own attempt and lastError: resuming
\* activation k with p changes no other activation
Returned(rcpt) == { j \in 1..Len(rcpt) : rcpt[j].st = "done" }

\* variant: one attempt counter shared by the activations of a fan-out
ResumeSharedAttempt(rcpt, k, p) ==
    [j \in 1..Len(rcpt) |->
        IF j = k
        THEN IF p.st = "done"
             THEN [p EXCEPT !.rank = Cardinality(Returned(rcpt)) + 1]
             ELSE p
        ELSE IF rcpt[j].st # "done" THEN [rcpt[j] EXCEPT !.attempt = p.attempt]
        ELSE rcpt[j]]

Resume(rcpt, k, p) ==
    [rcpt EXCEPT ![k] = IF p.st = "done"
                        THEN [p EXCEPT !.rank = Cardinality(Returned(rcpt)) + 1]
                        ELSE p]

\* variant: only the first recipient is sent to
ForwardEmailFirstOnly(rule, maxAttempts) ==
    [k \in 1..1 |->
        LET p == SendToRecipient(rule.recipients[k], maxAttempts)
        IN  IF p.st = "done" THEN [p EXCEPT !.rank = k] ELSE p]

\* rule.recipients.map((r) => sendToRecipient(mail, r, from)); with no attempt
\* to make the calls return at once, in order
ForwardEmail(rule, maxAttempts) ==
    [k \in 1..Len(rule.recipients) |->
        LET p == SendToRecipient(rule.recipients[k], maxAttempts)
        IN  IF p.st = "done" THEN [p EXCEPT !.rank = k] ELSE p]

\* Promise.all resolves once every sendToRecipient has, with the results in
\* the order of the promises
AllSettled(rcpt) == \A k \in 1..Len(rcpt) : rcpt[k].st = "done"

\* variant: the results in the order in which the calls returned
PromiseAllCompletionOrder(rcpt) ==
    [n \in 1..Len(rcpt) |->
        rcpt[CHOOSE k \in 1..Len(rcpt) : rcpt[k].rank = n].result[1]]

PromiseAll(rcpt) == [k \in 1..Len(rcpt) |-> rcpt[k].result[1]]

----------------------------------------------------------------------------
(* Orchestrator: processEmail *)

NoTask == [id |-> 0, subject |-> << >>, matchedTag |-> << >>,
           recipients |-> << >>, status |-> "none", error |-> << >>]

IdleRun == [pc |-> "idle", uid |-> 0, messageId |-> "", known |-> FALSE,
            durable |-> FALSE, outOfOrder |-> FALSE,
            kind |-> "none", task |-> NoTask, rcpt |-> << >>, results |-> << >>,
            replyOutstanding |-> FALSE, marked |-> FALSE, notifCalls |-> 0,
            appended |-> FALSE, fault |-> "none", notif |-> << >>]

\* processEmail has returned or thrown: its locals are gone; what is kept is
\* history (fault: the call whose exception ended the run, if one did)
Ended(run, pc) ==
    [run EXCEPT !.pc = pc, !.task = NoTask, !.rcpt = << >>, !.results = << >>,
                !.replyOutstanding = FALSE, !.outOfOrder = FALSE, !.notif = << >>]

\* const task: ForwardTask = { id: ++taskId, ..., status: "success" }
NewTask(id, subject, rule) ==
    [id |-> id, subject |-> subject, matchedTag |-> rule.tag,
     recipients |-> rule.recipients, status |-> "success", error |-> << >>]

SuccessCount(results) == Cardinality({ k \in 1..Len(results) : results[k].success })
FailCount(results) == Len(results) - SuccessCount(results)

\* `${failCount}/${results.length} failed`
ErrorSummary(failCount, total) == << failCount, "/", total, " failed" >>

\* variant: failed only when no recipient succeeded
AggregateAllFailed(task, results) ==
    IF SuccessCount(results) = 0
    THEN [task EXCEPT !.status = "failed",
                      !.error = ErrorSummary(FailCount(results), Len(results))]
    ELSE task

\* if (failCount > 0) { task.status = "failed"; task.error = ... }
Aggregate(task, results) ==
    IF FailCount(results) > 0
    THEN [task EXCEPT !.status = "failed",
                      !.error = ErrorSummary(FailCount(results), Len(results))]
    ELSE task

\* variant: the task is not kept
UnshiftNothing(ts, task) == ts

\* variant: on overflow the first entry is removed
UnshiftShift(ts, task) ==
    LET longer == << task >> \o ts
    IN  IF Len(longer) > HistoryCap THEN Tail(longer) ELSE longer

\* tasks.unshift(task); if (tasks.length > 100) tasks.pop()
Unshift(ts, task) ==
    LET longer == << task >> \o ts
    IN  IF Len(longer) > HistoryCap THEN SubSeq(longer, 1, Len(longer) - 1) ELSE longer

\* the record the next invocation of processEmail is kept in: the first one
\* whose invocation is over.  There are as many records as copies of its
\* messages a mailbox can have handed to the parser at once.
FreeSlots == { i \in Slots : runs[i].pc \in { "idle", "done", "fault" } }
NextSlot == CHOOSE i \in FreeSlots : \A j \in FreeSlots : i <= j

----------------------------------------------------------------------------
(* Inputs: the configuration and the mailbox *)

ConfigRules ==
    << [tag |-> << "P" >>,      recipients |-> << "a@x", "b@x" >>],
       [tag |-> << "p", "i" >>, recipients |-> << "c@x" >>],
       [tag |-> << "I" >>,      recipients |-> << "c@x" >>] >>

AllowLists == { << >>, << << "@", "X" >> >> }
RetryCounts == { << >>, << 0 >>, << 1 >>, << 2 >> }

Configs ==
    [rules : { ConfigRules }, allowedSenders : AllowLists, retryCount : RetryCounts]

Mails ==
    { [messageId |-> "m1", addr |-> << "u", "@", "x" >>, subject |-> << "s", "p" >>],
      [messageId |-> "m2", addr |-> << "U", "@", "X" >>, subject |-> << "I" >>],
      [messageId |-> "m3", addr |-> << "u", "@", "y" >>, subject |-> << "P", "i" >>],
      [messageId |-> "m4", addr |-> << "u", "@", "x" >>, subject |-> << "z" >>],
      [messageId |-> "",   addr |-> << "u", "@", "x" >>, subject |-> << "i" >>],
      [messageId |-> "m5", addr |-> << >>,               subject |-> << "i" >>] }

MessageIds == { m.messageId : m \in Mails }

\* mailboxes of one message, under every configuration, and of two
\* messages: a message for a rule with one recipient followed by one that
\* matches no rule; the first has an identifier (retryCount 1) or has none
\* (retryCount 0)
Scenarios ==
    ([1..1 -> Mails] \X Configs)
    \cup { s \in [1..2 -> Mails] \X Configs :
               /\ s[2].allowedSenders # << >>
               /\ s[1][1].messageId \in { "m2", "" }
               /\ s[2].retryCount =
                      (IF s[1][1].messageId = "m2" THEN << 1 >> ELSE << 0 >>)
               /\ s[1][2].messageId = "m4" }

Uids == DOMAIN inbox

\* startImapListener: a new Imap with its handlers, imap.connect().  st is
\* what the instance has come to: "connecting", "opening" (openBox asked
\* for), "listening" (mailbox open), "nobox" (openBox failed), "lost" (the
\* connection is gone) or "ended" ('end' emitted); mail counts the 'mail'
\* events the server has sent it and it has not handled yet
StartImapListener ==
    [st |-> "connecting", mail |-> 0, searches |-> 0,
     fetching |-> [u \in DOMAIN inbox |-> 0]]

----------------------------------------------------------------------------
(* Initial state: main() has loaded the config and an empty dedup file     *)

Init ==
    /\ \E s \in Scenarios : inbox = s[1] /\ config = s[2]
    /\ flags = [u \in DOMAIN inbox |-> "absent"]
    /\ imaps = << StartImapListener >>
    /\ inflight = [u \in DOMAIN inbox |-> 0]
    /\ flagging = [u \in DOMAIN inbox |-> 0]
    /\ file = << >>
    /\ forwardedIds = LoadForwardedIds(<< >>)
    /\ tasks = << >>
    /\ taskId = 0
    /\ runs = [i \in Slots |-> IdleRun]
    /\ synthCount = 0
    /\ restarts = 0
    /\ fanouts = [id \in MessageIds |-> 0]
    /\ reconnects = 0

----------------------------------------------------------------------------
(* IMAP listener: the 'mail' handler, the search callback, the 'message'    *)
(* and 'body' handlers of the fetch, the simpleParser callback and the      *)
(* server's answer to addFlags are steps of their own, in any order the     *)
(* server and the parser give them.                                         *)

\* The messages arrive in the order of their uids
Absent == { u \in Uids : flags[u] = "absent" }

\* the instances whose mailbox is open
Listening == { j \in DOMAIN imaps : imaps[j].st = "listening" }

\* 'ready' of instance j: imap.openBox("INBOX", false, cb)
Ready(j) ==
    /\ j \in DOMAIN imaps
    /\ imaps[j].st = "connecting"
    /\ imaps' = [imaps EXCEPT ![j].st = "opening"]
    /\ UNCHANGED << config, inbox, flags, inflight, flagging, forwardedIds, file,
                    tasks, taskId, runs, synthCount, restarts, fanouts, reconnects >>

\* the callback of openBox: on an error it logs and returns, and the instance
\* stays connected with no mailbox open; otherwise the instance listens
OpenBoxAnswer(j, err) ==
    /\ j \in DOMAIN imaps
    /\ imaps[j].st = "opening"
    /\ imaps' = [imaps EXCEPT ![j].st = IF err THEN "nobox" ELSE "listening"]
    /\ UNCHANGED << config, inbox, flags, inflight, flagging, forwardedIds, file,
                    tasks, taskId, runs, synthCount, restarts, fanouts, reconnects >>

\* n messages arrive in the mailbox: the server tells every instance that
\* has the mailbox open
Arrive(n) ==
    /\ n \in 1..Cardinality(Absent)
    /\ LET first == CHOOSE u \in Absent : \A v \in Absent : u <= v
       IN  flags' = [u \in Uids |->
                        IF u \in first..(first + n - 1) THEN "unseen" ELSE flags[u]]
    /\ imaps' = [j \in DOMAIN imaps |->
                    IF j \in Listening THEN [imaps[j] EXCEPT !.mail = @ + 1]
                    ELSE imaps[j]]
    /\ UNCHANGED << config, inbox, inflight, flagging, forwardedIds, file, tasks,
                    taskId, runs, synthCount, restarts, fanouts, reconnects >>

\* imap.on("mail") of instance j: imap.search(["UNSEEN"], cb)
MailEvent(j) ==
    /\ j \in Listening
    /\ imaps[j].mail > 0
    /\ imaps' = [imaps EXCEPT ![j].mail = @ - 1, ![j].searches = @ + 1]
    /\ UNCHANGED << config, inbox, flags, inflight, flagging, forwardedIds, file,
                    tasks, taskId, runs, synthCount, restarts, fanouts, reconnects >>

\* the callback of imap.search of instance j: nothing on an error or an
\* empty result, otherwise imap.fetch(results) and the handlers of its
\* 'message' event
SearchAnswer(j, err) ==
    /\ j \in Listening
    /\ imaps[j].searches > 0
    /\ LET results == { u \in Uids : flags[u] = "unseen" }
       IN  imaps' = [imaps EXCEPT
                        ![j].searches = @ - 1,
                        ![j].fetching =
                            IF err \/ results = {} THEN @
                            ELSE [u \in Uids |-> IF u \in results THEN @[u] + 1 ELSE @[u]]]
    /\ UNCHANGED << config, inbox, flags, inflight, flagging, forwardedIds, file,
                    tasks, taskId, runs, synthCount, restarts, fanouts, reconnects >>

\* the 'message' and 'body' events of a copy of u fetched by instance j: the
\* stream is handed to simpleParser
MessageBody(j, u) ==
    /\ j \in Listening
    /\ u \in Uids
    /\ imaps[j].fetching[u] > 0
    /\ imaps' = [imaps EXCEPT ![j].fetching[u] = @ - 1]
    /\ inflight' = [inflight EXCEPT ![u] = @ + 1]
    /\ UNCHANGED << config, inbox, flags, flagging, forwardedIds, file, tasks,
                    taskId, runs, synthCount, restarts, fanouts, reconnects >>

\* the server answers an addFlags request: the message is flagged \Seen, or
\* the request is refused (or lost) and the callback logs a warning
AddFlagsAnswer(u, ok) ==
    /\ u \in Uids
    /\ flagging[u] > 0
    /\ flagging' = [flagging EXCEPT ![u] = @ - 1]
    /\ flags' = IF ok THEN [flags EXCEPT ![u] = "seen"] ELSE flags
    /\ UNCHANGED << config, inbox, imaps, inflight, forwardedIds, file,
                    tasks, taskId, runs, synthCount, restarts, fanouts, reconnects >>

\* saveForwardedId: the set is updated, then the file; appendFileSync may throw
SaveForwardedId(messageId, appendOk) ==
    /\ forwardedIds' = forwardedIds \cup { messageId }
    /\ file' = IF appendOk THEN AppendForwardedId(file, messageId) ELSE file

\* processEmail(mail) for a copy of u, up to its first await or return
ProcessEmail(u, appendOk) ==
    LET i == NextSlot
        mail == inbox[u]
        subject == SubjectOf(mail)
        fromAddr == mail.addr
        messageId == GetMessageId(mail, FreshId(synthCount + 1))
        rule == MatchRule(subject, config)
        run == [IdleRun EXCEPT !.uid = u, !.messageId = messageId,
                               !.known = messageId \in forwardedIds,
                               !.durable = InFile(file, messageId)]
        marked == Ended([run EXCEPT !.marked = TRUE,
                                     !.fault = IF appendOk THEN "none" ELSE "append"],
                         IF appendOk THEN "done" ELSE "fault")
    IN  /\ synthCount' = IF mail.messageId = "" THEN synthCount + 1 ELSE synthCount
        /\ IF IsAlreadyForwarded(mail, forwardedIds)
           THEN /\ appendOk
                /\ runs' = [runs EXCEPT ![i] = Ended([run EXCEPT !.kind = "skip"], "done")]
                /\ UNCHANGED << forwardedIds, file, taskId, fanouts >>
           ELSE IF ~IsSenderAllowed(fromAddr, config)
           THEN /\ SaveForwardedId(messageId, appendOk)
                /\ runs' = [runs EXCEPT ![i] = [marked EXCEPT !.kind = "denied"]]
                /\ UNCHANGED << taskId, fanouts >>
           ELSE IF rule = << >>
           THEN /\ SaveForwardedId(messageId, appendOk)
                /\ runs' = [runs EXCEPT ![i] = [marked EXCEPT !.kind = "nomatch"]]
                /\ UNCHANGED << taskId, fanouts >>
           ELSE /\ appendOk
                /\ taskId' = taskId + 1
                /\ runs' = [runs EXCEPT ![i] =
                       [run EXCEPT !.pc = "deliver", !.kind = "forward",
                                   !.task = NewTask(taskId + 1, subject, rule[1]),
                                   !.rcpt = ForwardEmail(rule[1], MaxAttempts(config))]]
                /\ fanouts' = [fanouts EXCEPT ![mail.messageId] = @ + 1]
                /\ UNCHANGED << forwardedIds, file >>

\* The simpleParser callback for a copy of u: when the 'attributes' event has
\* set uid, ask the server to flag the message \Seen; return on a parse
\* error; otherwise processEmail(mail) up to its first await or return.
ParserCallback(u, err, hasUid, appendOk) ==
    /\ u \in Uids
    /\ inflight[u] > 0
    /\ inflight' = [inflight EXCEPT ![u] = @ - 1]
    /\ flagging' = IF hasUid THEN [flagging EXCEPT ![u] = @ + 1] ELSE flagging
    /\ IF err
       THEN /\ appendOk
            /\ UNCHANGED << forwardedIds, file, taskId, runs, synthCount, fanouts >>
       ELSE ProcessEmail(u, appendOk)
    /\ UNCHANGED << config, inbox, flags, imaps, tasks, restarts,
                    reconnects >>

----------------------------------------------------------------------------
(* Delivery: the transport answers, the timers fire, time passes *)

Delivering == { i \in Slots : runs[i].pc = "deliver" }

\* variant: the recipients are sent to one after the other
SendOkInOrder(i, k) ==
    /\ i \in Delivering /\ k \in 1..Len(runs[i].rcpt)
    /\ runs[i].rcpt[k].st = "sending"
    /\ \A j \in 1..(k - 1) : runs[i].rcpt[j].st = "done"
    /\ runs' = [runs EXCEPT ![i].rcpt = Resume(@, k, OnSendOk(@[k]))]
    /\ UNCHANGED << config, reconnects, inbox, flags, imaps, inflight,
                    flagging, forwardedIds, file, tasks, taskId, synthCount, restarts, fanouts >>

\* await transporter.sendMail(...) of recipient k resolves
SendOk(i, k) ==
    /\ i \in Delivering /\ k \in 1..Len(runs[i].rcpt)
    /\ runs[i].rcpt[k].st = "sending"
    /\ runs' = [runs EXCEPT ![i].rcpt = Resume(@, k, OnSendOk(@[k]))]
    /\ UNCHANGED << config, reconnects, inbox, flags, imaps, inflight,
                    flagging, forwardedIds, file, tasks,
                    taskId, synthCount, restarts, fanouts >>

SendFail(i, k, err) ==
    /\ i \in Delivering /\ k \in 1..Len(runs[i].rcpt)
    /\ runs[i].rcpt[k].st = "sending"
    /\ runs' = [runs EXCEPT ![i].rcpt =
                    Resume(@, k, OnSendFail(@[k], err, MaxAttempts(config)))]
    /\ UNCHANGED << config, reconnects, inbox, flags, imaps, inflight,
                    flagging, forwardedIds, file, tasks,
                    taskId, synthCount, restarts, fanouts >>

\* setTimeout(r, delay) calls back no earlier than delay after it was set
TimerFire(i, k) ==
    /\ i \in Delivering /\ k \in 1..Len(runs[i].rcpt)
    /\ runs[i].rcpt[k].st = "waiting"
    /\ runs[i].rcpt[k].waited >= runs[i].rcpt[k].delay
    /\ runs' = [runs EXCEPT ![i].rcpt = Resume(@, k, OnTimer(@[k]))]
    /\ UNCHANGED << config, reconnects, inbox, flags, imaps, inflight,
                    flagging, forwardedIds, file, tasks,
                    taskId, synthCount, restarts, fanouts >>

Waiting ==
    UNION { { << i, k >> : k \in { j \in 1..Len(runs[i].rcpt) :
                                      runs[i].rcpt[j].st = "waiting" } } :
            i \in Delivering }

\* BackoffMs of time passes for every pending timer; an expired timer is
\* called back before time moves on
Tick ==
    /\ Waiting # {}
    /\ \A w \in Waiting : runs[w[1]].rcpt[w[2]].waited < runs[w[1]].rcpt[w[2]].delay
    /\ runs' = [i \in Slots |->
                  IF i \in Delivering
                  THEN [runs[i] EXCEPT !.rcpt =
                           [k \in 1..Len(runs[i].rcpt) |->
                               IF runs[i].rcpt[k].st = "waiting"
                               THEN [runs[i].rcpt[k] EXCEPT !.waited = @ + BackoffMs]
                               ELSE runs[i].rcpt[k]]]
                  ELSE runs[i]]
    /\ UNCHANGED << config, reconnects, inbox, flags, imaps, inflight,
                    flagging, forwardedIds, file, tasks,
                    taskId, synthCount, restarts, fanouts >>

\* history: some activation returned before one that precedes it in the list
OutOfOrder(rcpt) ==
    \E j, k \in 1..Len(rcpt) : j < k /\ rcpt[j].rank > rcpt[k].rank

----------------------------------------------------------------------------
(* Notification rendering: reply-template.ts.  A text is given by its      *)
(* parts; the Chinese labels of the template are written in English.       *)
(* duration and timestamp are clock readings and are left out.             *)

LabelAllSuccess == "forward succeeded"
LabelPartFailed == "partly failed"
LabelSuccess == "success"
LabelFailure == "failure - "
LabelUnknown == "unknown"

\* const data: ReplyData = { subject, results, ... }
ReplyData(mail, results) == [subject |-> SubjectOf(mail), results |-> results]

\* variant: success when some recipient succeeded
GetReplySubjectSome(data) ==
    LET allSuccess == \E k \in 1..Len(data.results) : data.results[k].success
    IN  << "[Mail Exchange] ",
           IF allSuccess THEN LabelAllSuccess ELSE LabelPartFailed,
           " - ", data.subject >>

\* getReplySubject
GetReplySubject(data) ==
    LET allSuccess == \A k \in 1..Len(data.results) : data.results[k].success
    IN  << "[Mail Exchange] ",
           IF allSuccess THEN LabelAllSuccess ELSE LabelPartFailed,
           " - ", data.subject >>

\* `  ${r.email}: ${r.success ? ok : failure + (r.error || unknown)}`
ReplyLine(r) ==
    IF r.success THEN << "  ", r.email, ": ", LabelSuccess >>
    ELSE << "  ", r.email, ": ", LabelFailure,
            IF r.error # << >> /\ r.error[1] # "" THEN r.error[1] ELSE LabelUnknown >>

\* getReplyText: title, original subject, the statistics line (success,
\* failure, total), then one line per result
GetReplyText(data) ==
    LET successCount == Cardinality({ k \in 1..Len(data.results) : data.results[k].success })
        failCount == Len(data.results) - successCount
    IN  [title |-> "[Mail Exchange] report",
         subject |-> data.subject,
         stats |-> << "success", successCount, "failure", failCount,
                      "total", Len(data.results) >>,
         lines |-> [k \in 1..Len(data.results) |-> ReplyLine(data.results[k])]]

\* the message sendReplyNotification hands to transporter.sendMail
ReplyMessage(replyTo, data) ==
    [to |-> replyTo, subject |-> GetReplySubject(data), text |-> GetReplyText(data)]

\* variant: a placeholder address when the message has none
ReplyToPlaceholder(mail) == IF mail.addr # << >> THEN mail.addr ELSE << "?" >>

\* sendReplyNotification up to its await: no send without a sender address
ReplyTo(mail) == mail.addr

\* Promise.all has resolved: aggregate, saveForwardedId, sendReplyNotification
\* up to its await
Completed(i, appendOk) ==
    /\ i \in Delivering
    /\ AllSettled(runs[i].rcpt)
    /\ LET results == PromiseAll(runs[i].rcpt)
           task == Aggregate(runs[i].task, results)
           replyTo == ReplyTo(inbox[runs[i].uid])
       IN  /\ SaveForwardedId(runs[i].messageId, appendOk)
           /\ runs' = [runs EXCEPT ![i] =
                  IF appendOk
                  THEN [@ EXCEPT !.pc = "notify", !.results = results, !.task = task,
                                 !.rcpt = << >>,
                                 !.outOfOrder = OutOfOrder(runs[i].rcpt),
                                 !.marked = TRUE,
                                 !.replyOutstanding = (replyTo # << >>),
                                 !.notifCalls = IF replyTo # << >> THEN 1 ELSE 0,
                                 !.notif = IF replyTo # << >>
                                           THEN << ReplyMessage(replyTo,
                                                       ReplyData(inbox[runs[i].uid], results)) >>
                                           ELSE << >>]
                  ELSE Ended([@ EXCEPT !.marked = TRUE, !.fault = "append"], "fault")]
    /\ UNCHANGED << config, reconnects, inbox, flags, imaps, inflight,
                    flagging, tasks, taskId, synthCount,
                    restarts, fanouts >>

\* await sendReplyNotification(...) is over: on success tasks.unshift(task);
\* a rejected notification send rejects processEmail
Notified(i, sendOk) ==
    /\ runs[i].pc = "notify"
    /\ ~runs[i].replyOutstanding => sendOk
    /\ IF sendOk
       THEN /\ tasks' = Unshift(tasks, runs[i].task)
            /\ runs' = [runs EXCEPT ![i] = Ended([@ EXCEPT !.appended = TRUE], "done")]
       ELSE /\ tasks' = tasks
            /\ runs' = [runs EXCEPT ![i] = Ended([@ EXCEPT !.fault = "notify"], "fault")]
    /\ UNCHANGED << config, reconnects, inbox, flags, imaps, inflight,
                    flagging, forwardedIds, file, taskId,
                    synthCount, restarts, fanouts >>

\* The process ends and main() runs again: memory is lost, the dedup set is
\* reloaded from the file, the mailbox keeps its flags; an addFlags request
\* already sent is still the server's to carry out
Restart ==
    /\ restarts < MaxRestarts
    /\ restarts' = restarts + 1
    /\ forwardedIds' = LoadForwardedIds(file)
    /\ tasks' = << >>
    /\ taskId' = 0
    /\ runs' = [i \in Slots |-> IdleRun]
    /\ imaps' = << StartImapListener >>
    /\ inflight' = [u \in Uids |-> 0]
    /\ reconnects' = 0
    /\ UNCHANGED << config, inbox, flags, flagging, file, synthCount, fanouts >>

Next ==
    \/ \E j \in DOMAIN imaps : Ready(j)
    \/ \E j \in DOMAIN imaps, err \in BOOLEAN : OpenBoxAnswer(j, err)
    \/ \E n \in 1..Cardinality(Uids) : Arrive(n)
    \/ \E j \in DOMAIN imaps : MailEvent(j)
    \/ \E j \in DOMAIN imaps, err \in BOOLEAN : SearchAnswer(j, err)
    \/ \E j \in DOMAIN imaps, u \in Uids : MessageBody(j, u)
    \/ \E u \in Uids, err, hasUid, appendOk \in BOOLEAN :
           ParserCallback(u, err, hasUid, appendOk)
    \/ \E u \in Uids, ok \in BOOLEAN : AddFlagsAnswer(u, ok)
    \/ \E i \in Slots : \E k \in 1..Len(runs[i].rcpt) : SendOk(i, k)
    \/ \E i \in Slots : \E k \in 1..Len(runs[i].rcpt), err \in Errors : SendFail(i, k, err)
    \/ \E i \in Slots : \E k \in 1..Len(runs[i].rcpt) : TimerFire(i, k)
    \/ Tick
    \/ \E i \in Slots, appendOk \in BOOLEAN : Completed(i, appendOk)
    \/ \E i \in Slots, sendOk \in BOOLEAN : Notified(i, sendOk)
    \/ Restart

Spec == Init /\ [][Next]_vars

----------------------------------------------------------------------------
(* The mailbox connection.  Spec is the pipeline on a connection that      *)
(* stays up; ListenerSpec adds the connection's 'error' and 'end' events   *)
(* and the reconnect timer they set.                                       *)

\* what is left of an instance without its connection: whatever it had asked
\* the server for is never answered
Without(st) == [StartImapListener EXCEPT !.st = st]

\* the instances that have come into being and the reconnects pending
Started == Len(imaps) + reconnects

\* imap.on("error") of instance j: setTimeout(startImapListener, 5000).  The
\* handler leaves the instance as it is and stays registered on an instance
\* that has ended; whether the connection is lost with the error is up to
\* the IMAP library.
ImapError(j, lost) ==
    /\ j \in DOMAIN imaps
    /\ Started < MaxListeners
    /\ imaps' = IF lost /\ imaps[j].st \notin { "lost", "ended" }
                THEN [imaps EXCEPT ![j] = Without("lost")]
                ELSE imaps
    /\ reconnects' = reconnects + 1
    /\ UNCHANGED << config, inbox, flags, inflight, flagging, forwardedIds, file,
                    tasks, taskId, runs, synthCount, restarts, fanouts >>

\* imap.on("end") of instance j: the connection has ended;
\* setTimeout(startImapListener, 5000)
ImapEnd(j) ==
    /\ j \in DOMAIN imaps
    /\ imaps[j].st # "ended"
    /\ Started < MaxListeners
    /\ imaps' = [imaps EXCEPT ![j] = Without("ended")]
    /\ reconnects' = reconnects + 1
    /\ UNCHANGED << config, inbox, flags, inflight, flagging, forwardedIds, file,
                    tasks, taskId, runs, synthCount, restarts, fanouts >>

\* the reconnect timer fires: startImapListener() makes a new instance
Reconnect ==
    /\ reconnects > 0
    /\ reconnects' = reconnects - 1
    /\ imaps' = Append(imaps, StartImapListener)
    /\ UNCHANGED << config, inbox, flags, inflight, flagging, forwardedIds, file,
                    tasks, taskId, runs, synthCount, restarts, fanouts >>

ListenerNext ==
    \/ Next
    \/ \E j \in DOMAIN imaps, lost \in BOOLEAN : ImapError(j, lost)
    \/ \E j \in DOMAIN imaps : ImapEnd(j)
    \/ Reconnect

\* the mailboxes of one message from a sender on the allow-list
ListenerScenarios ==
    { s \in Scenarios :
          /\ DOMAIN s[1] = 1..1
          /\ s[2].allowedSenders # << >>
          /\ s[2].retryCount = << 2 >>
          /\ s[1][1].messageId \in { "m2", "m3" } }

ListenerInit ==
    /\ \E s \in ListenerScenarios : inbox = s[1] /\ config = s[2]
    /\ flags = [u \in DOMAIN inbox |-> "absent"]
    /\ imaps = << StartImapListener >>
    /\ inflight = [u \in DOMAIN inbox |-> 0]
    /\ flagging = [u \in DOMAIN inbox |-> 0]
    /\ file = << >>
    /\ forwardedIds = LoadForwardedIds(<< >>)
    /\ tasks = << >>
    /\ taskId = 0
    /\ runs = [i \in Slots |-> IdleRun]
    /\ synthCount = 0
    /\ restarts = 0
    /\ fanouts = [id \in MessageIds |-> 0]
    /\ reconnects = 0

ListenerSpec == ListenerInit /\ [][ListenerNext]_vars

----------------------------------------------------------------------------
(* Progress.  The transport answers every sendMail, time passes and every  *)
(* timer is called back, and the event loop runs every continuation that   *)
(* is ready: each of these steps, once it can be taken, is taken.          *)

\* the mailboxes of one message, under every retryCount, without allow-list
LiveScenarios ==
    { s \in Scenarios : DOMAIN s[1] = 1..1 /\ s[2].allowedSenders = << >> }

LiveInit ==
    /\ \E s \in LiveScenarios : inbox = s[1] /\ config = s[2]
    /\ flags = [u \in DOMAIN inbox |-> "absent"]
    /\ imaps = << StartImapListener >>
    /\ inflight = [u \in DOMAIN inbox |-> 0]
    /\ flagging = [u \in DOMAIN inbox |-> 0]
    /\ file = << >>
    /\ forwardedIds = LoadForwardedIds(<< >>)
    /\ tasks = << >>
    /\ taskId = 0
    /\ runs = [i \in Slots |-> IdleRun]
    /\ synthCount = 0
    /\ restarts = 0
    /\ fanouts = [id \in MessageIds |-> 0]
    /\ reconnects = 0

\* the transport answers the sendMail of recipient k of run i
Answer(i, k) == SendOk(i, k) \/ \E err \in Errors : SendFail(i, k, err)

\* the continuation of run i after an await
Continue(i) ==
    \/ \E appendOk \in BOOLEAN : Completed(i, appendOk)
    \/ \E sendOk \in BOOLEAN : Notified(i, sendOk)

\* the positions a recipient has in a rule of the configuration
RecipientIndexes == UNION { DOMAIN ConfigRules[r].recipients : r \in DOMAIN ConfigRules }

Fairness ==
    /\ \A i \in Slots, k \in RecipientIndexes : WF_vars(Answer(i, k))
    /\ \A i \in Slots, k \in RecipientIndexes : WF_vars(TimerFire(i, k))
    /\ WF_vars(Tick)
    /\ \A i \in Slots : WF_vars(Continue(i))

LiveSpec == LiveInit /\ [][Next]_vars /\ Fairness

----------------------------------------------------------------------------
(* A process that has been up for a while: it has already forwarded the    *)
(* messages h1 .. hN (one recipient each, all delivered, all notified) one *)
(* after the other, and the mailbox now receives further messages.  N is   *)
(* chosen so that the next insertions fill and overflow the task history.  *)

PastCounts == { HistoryCap - 1, HistoryCap }

PastId(k) == "h" \o ToString(k)

\* the task of the k-th of these messages, as processEmail left it
PastTask(k) == Aggregate(NewTask(k, << "I" >>, ConfigRules[3]),
                         << SuccessResult(ConfigRules[3].recipients[1], 1) >>)

\* tasks after these n <= 100 insertions: the newest first, none removed yet
PastTasks(n) == [k \in 1..n |-> PastTask(n - k + 1)]

\* FORWARDED_FILE after the n calls of saveForwardedId: `${id}\n` each
PastFile(n) == [k \in 1..(2 * n) |-> IF k % 2 = 1 THEN PastId((k + 1) \div 2) ELSE NL]

\* the mailboxes and configurations followed from such a state
HistoryScenarios ==
    { s \in Scenarios :
          /\ s[2].allowedSenders # << >>
          /\ s[2].retryCount \in { << 1 >>, << 2 >> }
          /\ DOMAIN s[1] = 1..1
          /\ s[1][1].messageId = "m2" }

HistoryInit ==
    /\ \E s \in HistoryScenarios : inbox = s[1] /\ config = s[2]
    /\ flags = [u \in DOMAIN inbox |-> "absent"]
    /\ imaps = << StartImapListener >>
    /\ inflight = [u \in DOMAIN inbox |-> 0]
    /\ flagging = [u \in DOMAIN inbox |-> 0]
    /\ \E n \in PastCounts :
           /\ file = PastFile(n)
           /\ forwardedIds = LoadForwardedIds(PastFile(n))
           /\ tasks = PastTasks(n)
           /\ taskId = n
    /\ runs = [i \in Slots |-> IdleRun]
    /\ synthCount = 0
    /\ restarts = 0
    /\ fanouts = [id \in MessageIds |-> 0]
    /\ reconnects = 0

HistorySpec == HistoryInit /\ [][Next]_vars

----------------------------------------------------------------------------
(* The access filter and the rule matcher over a range of inputs: a        *)
(* mailbox of one message, with the sender address and the allow-list, or  *)
(* the subject and the rule list, drawn from the sets below.               *)

SenderAddrs ==
    { << >>, << "u", "@", "x" >>, << "U", "@", "X" >>, << "u", "@", "y" >>,
      << "x" >>, << "y", "@", "x", "x" >> }

AllowInputs ==
    { << >>,
      << << "@", "X" >> >>,
      << << "y" >>, << "@", "x" >> >>,
      << << "@", "x", "x" >> >>,
      << << >> >>,
      << << "U", "@", "X" >>, << "u", "@", "Y" >> >> }

Subjects ==
    { << >>, << "s", "p" >>, << "I" >>, << "P", "i" >>, << "z" >>,
      << "i", "P" >> }

RuleLists ==
    { ConfigRules,
      << ConfigRules[2], ConfigRules[1] >>,
      << >>,
      << ConfigRules[3], [tag |-> << >>, recipients |-> << "a@x" >>] >> }

InputScenarios ==
    { << [u \in 1..1 |-> [messageId |-> "m1", addr |-> a, subject |-> << "I" >>]],
         [rules |-> ConfigRules, allowedSenders |-> l, retryCount |-> << 2 >>] >> :
          a \in SenderAddrs, l \in AllowInputs }
    \cup
    { << [u \in 1..1 |-> [messageId |-> "m1", addr |-> << "u", "@", "x" >>,
                          subject |-> t]],
         [rules |-> r, allowedSenders |-> << >>, retryCount |-> << 1 >>] >> :
          t \in Subjects, r \in RuleLists }

InputInit ==
    /\ \E s \in InputScenarios : inbox = s[1] /\ config = s[2]
    /\ flags = [u \in DOMAIN inbox |-> "absent"]
    /\ imaps = << StartImapListener >>
    /\ inflight = [u \in DOMAIN inbox |-> 0]
    /\ flagging = [u \in DOMAIN inbox |-> 0]
    /\ file = << >>
    /\ forwardedIds = LoadForwardedIds(<< >>)
    /\ tasks = << >>
    /\ taskId = 0
    /\ runs = [i \in Slots |-> IdleRun]
    /\ synthCount = 0
    /\ restarts = 0
    /\ fanouts = [id \in MessageIds |-> 0]
    /\ reconnects = 0

InputSpec == InputInit /\ [][Next]_vars

----------------------------------------------------------------------------
(* Properties *)

Last(o) == o[Len(o)]
AllFailed(o) == \A n \in 1..Len(o) : o[n] \in Errors

RECURSIVE SumSeq(_)
SumSeq(q) == IF q = << >> THEN 0 ELSE Head(q) + SumSeq(Tail(q))

\* a step in which slot i takes a new invocation of processEmail
Starts(i) ==
    /\ runs[i].pc \in { "idle", "done", "fault" }
    /\ runs'[i].pc # "idle"
    /\ runs'[i] # runs[i]

\* C1: a run whose message identifier is in the dedup set when processEmail
\* starts returns at once: no transport send (delivery or notification), no
\* Task History entry, and the dedup set, the file and taskId are unchanged.
C1_KnownIdIsSkipped ==
    [][\A i \in Slots :
          (Starts(i) /\ runs'[i].known) =>
              /\ runs'[i].pc = "done" /\ runs'[i].kind = "skip"
              /\ runs'[i].rcpt = << >> /\ runs'[i].notifCalls = 0
              /\ ~runs'[i].marked /\ ~runs'[i].appended
              /\ UNCHANGED << forwardedIds, file, taskId, tasks, fanouts >>]_vars

C1_Witness ==
    \E i \in Slots : runs[i].known /\ runs[i].kind = "skip" /\ runs[i].pc = "done"

\* C2: without a restart, each message identifier leads to at most one
\* fan-out (forwardEmail call), however the listener presents the messages.
C2_AtMostOneFanout ==
    restarts = 0 => \A id \in MessageIds \ { "" } : fanouts[id] <= 1

\* C3: after a restart every identifier that saveForwardedId appended to the
\* file is in the reloaded dedup set, and a run for a message whose identifier
\* is in the file is skipped.
C3_DurableIdsSurviveRestart ==
    restarts > 0 =>
        /\ \A n \in 1..Len(file) : file[n] # NL => file[n] \in forwardedIds
        /\ \A i \in Slots :
               runs[i].durable => runs[i].kind = "skip" /\ runs[i].pc = "done"

C3_Witness ==
    /\ restarts > 0
    /\ \E i \in Slots : runs[i].durable /\ runs[i].kind = "skip"

\* C4: for a matched message saveForwardedId is called only once a send to
\* every recipient of the rule has reached its final outcome, and before the
\* notification send and the Task History append; for a disallowed or
\* unmatched message it is called with no transport send attempted.
C4_MarkOrdering ==
    [][\A i \in Slots :
          /\ (~runs[i].marked /\ runs'[i].marked) =>
                IF runs'[i].kind = "forward"
                THEN /\ runs[i].pc = "deliver"
                     /\ \A k \in 1..Len(runs[i].task.recipients) :
                            /\ k <= Len(runs[i].rcpt)
                            /\ runs[i].rcpt[k].email = runs[i].task.recipients[k]
                            /\ runs[i].rcpt[k].st = "done"
                     /\ runs[i].notifCalls = 0 /\ ~runs[i].appended
                ELSE /\ runs'[i].kind \in { "denied", "nomatch" }
                     /\ runs'[i].rcpt = << >> /\ runs'[i].notifCalls = 0
                     /\ runs'[i].pc \in { "done", "fault" }
          /\ (runs'[i].notifCalls > 0 \/ runs'[i].appended) =>
                runs'[i].marked /\ InFile(file', runs'[i].messageId)]_vars

C4_Witness ==
    /\ \E i \in Slots :
           /\ runs[i].kind = "forward" /\ runs[i].marked /\ runs[i].pc = "notify"
           /\ Len(runs[i].results) = Len(runs[i].task.recipients)
           /\ runs[i].notifCalls = 1
    /\ \E i \in Slots : runs[i].kind \in { "denied", "nomatch" } /\ runs[i].marked

\* C5: what sendToRecipient does for a recipient is a function of the transport
\* outcomes for that recipient alone: the transport calls made, whether it has
\* returned, and the result (success, attempts, error) are those its own
\* outcomes determine, whatever the outcomes and the progress of the other
\* recipients of the fan-out.
C5_RecipientsIndependent ==
    \A i \in Slots : runs[i].pc = "deliver" =>
        \A k \in 1..Len(runs[i].rcpt) :
            LET p == runs[i].rcpt[k]
                o == p.outcomes
                max == MaxAttempts(config)
                final == (o # << >> /\ Last(o) = "ok") \/ Len(o) >= max
            IN  /\ (p.st = "done") <=> final
                /\ p.calls = Len(o) + (IF p.st = "sending" THEN 1 ELSE 0)
                /\ p.st # "done" => p.attempt = Len(o) + (IF p.st = "sending" THEN 1 ELSE 0)
                /\ p.st = "done" =>
                      p.result = << IF o # << >> /\ Last(o) = "ok"
                                    THEN [email |-> p.email, success |-> TRUE,
                                          error |-> << >>, attempts |-> Len(o)]
                                    ELSE [email |-> p.email, success |-> FALSE,
                                          error |-> << IF o = << >> THEN "" ELSE Last(o) >>,
                                          attempts |-> max] >>

C5_Witness ==
    \E i \in Slots :
        /\ runs[i].pc = "deliver" /\ Len(runs[i].rcpt) = 2
        /\ runs[i].rcpt[1].st = "done" /\ runs[i].rcpt[1].outcomes = << "e1", "ok" >>
        /\ runs[i].rcpt[1].result[1].attempts = 2
        /\ runs[i].rcpt[2].st = "done" /\ Len(runs[i].rcpt[2].outcomes) = 3
        /\ AllFailed(runs[i].rcpt[2].outcomes)

\* C6: a recipient whose every attempt failed has had exactly maxAttempts
\* transport calls, and its result is success = false, attempts = maxAttempts,
\* error = the message of the last failed attempt.
C6_ExhaustedRetries ==
    \A i \in Slots : runs[i].pc = "deliver" =>
        \A k \in 1..Len(runs[i].rcpt) :
            LET p == runs[i].rcpt[k]
                max == MaxAttempts(config)
            IN  (p.st = "done" /\ AllFailed(p.outcomes)) =>
                    /\ p.calls = max /\ Len(p.outcomes) = max
                    /\ ~p.result[1].success
                    /\ p.result[1].attempts = max
                    /\ p.outcomes # << >> => p.result[1].error = << Last(p.outcomes) >>

C6_Witness ==
    \E i \in Slots, k \in 1..2 :
        /\ runs[i].pc = "deliver" /\ k <= Len(runs[i].rcpt)
        /\ runs[i].rcpt[k].st = "done"
        /\ runs[i].rcpt[k].outcomes = << "e1", "e1", "e2" >>
        /\ runs[i].rcpt[k].result[1].error = << "e2" >>
        /\ runs[i].rcpt[k].calls = DefaultRetryCount

\* C7: the retry after failed attempt n (n < maxAttempts) starts no earlier
\* than 1000*n ms after the failure, no wait follows the last attempt, and an
\* always-failing recipient has waited 1000*(1+...+(maxAttempts-1)) ms in all.
C7_LinearBackoff ==
    \A i \in Slots : runs[i].pc = "deliver" =>
        \A k \in 1..Len(runs[i].rcpt) :
            LET p == runs[i].rcpt[k]
                max == MaxAttempts(config)
            IN  /\ \A n \in 1..Len(p.waits) : p.waits[n] >= 1000 * n
                /\ p.st = "waiting" =>
                       /\ p.attempt < max
                       /\ p.delay = 1000 * p.attempt
                       /\ Len(p.waits) = p.attempt - 1
                /\ p.st = "sending" => Len(p.waits) = p.attempt - 1
                /\ (p.st = "done" /\ p.outcomes # << >>) =>
                       Len(p.waits) = Len(p.outcomes) - 1
                /\ (p.st = "done" /\ AllFailed(p.outcomes) /\ max >= 1) =>
                       SumSeq(p.waits) = (1000 * (max - 1) * max) \div 2

C7_Witness ==
    \E i \in Slots, k \in 1..2 :
        /\ runs[i].pc = "deliver" /\ k <= Len(runs[i].rcpt)
        /\ runs[i].rcpt[k].st = "done" /\ AllFailed(runs[i].rcpt[k].outcomes)
        /\ runs[i].rcpt[k].waits = << 1000, 2000 >>

\* C8: when attempt n is the first to succeed the result is success = true,
\* attempts = n, no error, and exactly n transport calls were made to the
\* recipient: none follows the success.
C8_FirstSuccessStops ==
    \A i \in Slots : runs[i].pc = "deliver" =>
        \A k \in 1..Len(runs[i].rcpt) :
            LET p == runs[i].rcpt[k]
            IN  \A n \in 1..Len(p.outcomes) :
                    p.outcomes[n] = "ok" =>
                        /\ n <= MaxAttempts(config)
                        /\ Len(p.outcomes) = n /\ p.calls = n
                        /\ p.st = "done"
                        /\ p.result = << [email |-> p.email, success |-> TRUE,
                                          error |-> << >>, attempts |-> n] >>

C8_Witness ==
    \E i \in Slots, k \in 1..2 :
        /\ runs[i].pc = "deliver" /\ Len(runs[i].rcpt) = 2
        /\ runs[i].rcpt[k].outcomes = << "e2", "e1", "ok" >>
        /\ runs[i].rcpt[k].result[1].attempts = 3
        /\ \E j \in 1..2 : j # k /\ runs[i].rcpt[j].st # "done"

\* C9: forwardEmail returns only when every recipient's sendToRecipient has
\* returned, and its result list has one RecipientResult per recipient of the
\* rule, in the rule's order, whatever the order of completion.
C9_OneResultPerRecipientInOrder ==
    [][\A i \in Slots :
          (runs[i].pc = "deliver" /\ runs'[i].pc \in { "notify", "fault" }) =>
              /\ \A k \in 1..Len(runs[i].rcpt) : runs[i].rcpt[k].st = "done"
              /\ runs'[i].pc = "notify" =>
                    /\ Len(runs'[i].results) = Len(runs[i].task.recipients)
                    /\ \A k \in 1..Len(runs'[i].results) :
                           /\ runs'[i].results[k].email = runs[i].task.recipients[k]
                           /\ runs'[i].results[k] = runs[i].rcpt[k].result[1]]_vars

C9_Witness ==
    \E i \in Slots :
        /\ runs[i].pc = "notify" /\ runs[i].outOfOrder
        /\ Len(runs[i].results) = 2
        /\ runs[i].results[1].attempts = 3 /\ runs[i].results[1].success
        /\ runs[i].results[2].attempts = 1

\* C10: the ForwardTask appended to Task History has status success iff every
\* RecipientResult succeeded, and then no error; otherwise status failed and
\* error "<failCount>/<total> failed".
C10_AggregateStatus ==
    [][\A i \in Slots :
          (runs[i].pc = "notify" /\ runs'[i].pc = "done") =>
              LET r == runs[i].results
                  failed == { k \in 1..Len(r) : ~r[k].success }
                  t == tasks'[1]
              IN  /\ Len(tasks') > 0
                  /\ t.id = runs[i].task.id
                  /\ t.recipients = [k \in 1..Len(r) |-> r[k].email]
                  /\ t.status \in { "success", "failed" }
                  /\ (t.status = "success") <=> (failed = {})
                  /\ t.status = "success" => t.error = << >>
                  /\ t.status = "failed" =>
                         t.error = << Cardinality(failed), "/", Len(r), " failed" >>]_vars

C10_Witness ==
    /\ Len(tasks) > 0
    /\ tasks[1].status = "failed"
    /\ tasks[1].error = << 1, "/", 2, " failed" >>

\* C11: Task History never holds more than 100 entries; every insertion puts
\* the new task at the head and keeps the earlier entries in their order, and
\* an insertion into a full history removes its last entry, the one inserted
\* earliest.  Nothing else changes the history except a restart, which
\* empties it.
C11_HistoryBounded ==
    /\ [](Len(tasks) <= 100)
    /\ [][
          /\ \A i \in Slots :
                 (runs[i].pc = "notify" /\ runs'[i].pc = "done") =>
                     /\ Len(tasks') = (IF Len(tasks) < 100 THEN Len(tasks) + 1 ELSE 100)
                     /\ tasks'[1] = runs[i].task
                     /\ \A n \in 2..Len(tasks') : tasks'[n] = tasks[n - 1]
          /\ (\A i \in Slots : ~(runs[i].pc = "notify" /\ runs'[i].pc = "done")) =>
                 (tasks' = tasks \/ (tasks' = << >> /\ restarts' = restarts + 1))
       ]_vars

\* the 101st insertion has happened: the entry inserted first (id 1) is gone,
\* the one inserted second is last and the newest is first
C11_Witness ==
    /\ restarts = 0
    /\ Len(tasks) = 100
    /\ tasks[1].id = 101
    /\ tasks[100].id = 2
    /\ \A n \in 1..100 : tasks[n].id = 102 - n

\* C12: when the notification send fails, processEmail still ends normally,
\* the task with the aggregate status is still put into Task History, the
\* identifier stays in the dedup set and no delivery is run again.
C12_NotificationFailureSwallowed ==
    [][\A i \in Slots :
          (runs[i].pc = "notify" /\ runs'[i].fault = "notify") =>
              /\ runs'[i].pc = "done"
              /\ runs'[i].appended
              /\ Len(tasks') > 0 /\ tasks'[1] = runs[i].task
              /\ runs[i].messageId \in forwardedIds'
              /\ fanouts' = fanouts]_vars

\* C13: every identifier in the in-memory dedup set is in the file, in every
\* state, also after an append that failed.
C13_MemoryWithinDurable ==
    \A id \in forwardedIds : InFile(file, id)

\* C14: a run for a matched message ends in a fault only when the append to
\* the file or the notification send failed, whatever the recipient sends
\* did; when both succeed it ends normally, with exactly one insertion of its
\* task into Task History, made by its last step.
C14_RecipientFailuresAreNotFaults ==
    /\ [](\A i \in Slots :
             runs[i].kind = "forward" =>
                 /\ runs[i].pc = "fault" <=> runs[i].fault \in { "append", "notify" }
                 /\ runs[i].pc = "done" <=> runs[i].appended
                 /\ runs[i].pc \in { "deliver", "notify", "done", "fault" })
    /\ [][\A i \in Slots :
             /\ (~runs[i].appended /\ runs'[i].appended) =>
                    /\ runs[i].pc = "notify" /\ runs'[i].pc = "done"
                    /\ Len(tasks') = (IF Len(tasks) < 100 THEN Len(tasks) + 1 ELSE 100)
                    /\ tasks'[1] = runs[i].task
                    /\ \A n \in 2..Len(tasks') : tasks'[n] = tasks[n - 1]
             /\ (runs[i].pc = "deliver" /\ runs'[i].pc = "deliver") =>
                    runs'[i].fault = "none" /\ ~runs'[i].appended
       ]_vars

\* both recipients of the rule failed, the append and the notification
\* succeeded: the run ended normally and its task is in the history
C14_Witness ==
    \E i \in Slots :
        /\ runs[i].kind = "forward" /\ runs[i].pc = "done" /\ runs[i].appended
        /\ runs[i].fault = "none"
        /\ Len(tasks) > 0
        /\ tasks[1].status = "failed"
        /\ tasks[1].error = << 2, "/", 2, " failed" >>

\* the lowercased entry is a substring of the lowercased address
EntryInAddress(entry, addr) ==
    \E off \in 0..(Len(addr) - Len(entry)) :
        \A n \in 1..Len(entry) : ToLowerChar(addr[off + n]) = ToLowerChar(entry[n])

\* the allow-list is empty, or one of its entries is in the address
OnAllowList(addr, list) ==
    Len(list) = 0 \/ \E k \in 1..Len(list) : EntryInAddress(list[k], addr)

\* the lowercased tag of the rule is a substring of the lowercased subject
TagInSubject(rule, subject) ==
    \E off \in 0..(Len(subject) - Len(rule.tag)) :
        \A n \in 1..Len(rule.tag) :
            ToLowerChar(subject[off + n]) = ToLowerChar(rule.tag[n])

\* C15: a run for a message whose identifier is not in the dedup set and whose
\* sender is not allowed puts the identifier into the dedup set and the file
\* and ends: no rule is matched, no task is built, no transport send (delivery
\* or notification) is made, and Task History and taskId are unchanged.
C15_DisallowedSenderDropped ==
    [][\A i \in Slots :
          (/\ Starts(i) /\ ~runs'[i].known
           /\ ~OnAllowList(inbox[runs'[i].uid].addr, config.allowedSenders)) =>
              /\ runs'[i].kind = "denied"
              /\ runs'[i].marked /\ runs'[i].messageId \in forwardedIds'
              /\ runs'[i].pc \in { "done", "fault" }
              /\ runs'[i].pc = "done" =>
                     file' = file \o << runs'[i].messageId, NL >>
              /\ runs'[i].pc = "fault" => runs'[i].fault = "append"
              /\ runs'[i].task = NoTask /\ runs'[i].rcpt = << >>
              /\ runs'[i].notifCalls = 0 /\ ~runs'[i].appended
              /\ UNCHANGED << tasks, taskId, fanouts >>]_vars

C15_Witness ==
    \E i \in Slots :
        /\ runs[i].kind = "denied" /\ runs[i].pc = "done" /\ ~runs[i].known
        /\ inbox[runs[i].uid].addr = << "u", "@", "y" >>
        /\ runs[i].messageId \in forwardedIds /\ InFile(file, runs[i].messageId)
        /\ taskId = 0 /\ tasks = << >>

\* C16: a run for a message whose identifier is not in the dedup set, whose
\* sender is allowed and whose subject contains no rule's tag puts the
\* identifier into the dedup set and the file and ends: no transport send
\* (delivery or notification), no task in Task History.
C16_UnmatchedDropped ==
    [][\A i \in Slots :
          (/\ Starts(i) /\ ~runs'[i].known
           /\ OnAllowList(inbox[runs'[i].uid].addr, config.allowedSenders)
           /\ \A k \in 1..Len(config.rules) :
                  ~TagInSubject(config.rules[k], SubjectOf(inbox[runs'[i].uid]))) =>
              /\ runs'[i].kind = "nomatch"
              /\ runs'[i].marked /\ runs'[i].messageId \in forwardedIds'
              /\ runs'[i].pc \in { "done", "fault" }
              /\ runs'[i].pc = "done" =>
                     file' = file \o << runs'[i].messageId, NL >>
              /\ runs'[i].pc = "fault" => runs'[i].fault = "append"
              /\ runs'[i].rcpt = << >>
              /\ runs'[i].notifCalls = 0 /\ ~runs'[i].appended
              /\ UNCHANGED << tasks, taskId, fanouts >>]_vars

C16_Witness ==
    \E i \in Slots :
        /\ runs[i].kind = "nomatch" /\ runs[i].pc = "done" /\ ~runs[i].known
        /\ inbox[runs[i].uid].subject = << "z" >>
        /\ config.allowedSenders # << >>
        /\ runs[i].messageId \in forwardedIds /\ InFile(file, runs[i].messageId)
        /\ tasks = << >>

\* C17: isSenderAllowed is true when the allow-list is empty, and otherwise
\* true exactly when some lowercased entry of the list is a substring of the
\* lowercased sender address; a message with no sender address is judged as
\* the empty address.  processEmail drops a message exactly when it is false.
C17_IsAllowed ==
    /\ [](\A u \in Uids :
             IsSenderAllowed(inbox[u].addr, config)
                 <=> OnAllowList(inbox[u].addr, config.allowedSenders))
    /\ [][\A i \in Slots :
             (Starts(i) /\ ~runs'[i].known) =>
                 (runs'[i].kind = "denied"
                      <=> ~OnAllowList(inbox[runs'[i].uid].addr, config.allowedSenders))
       ]_vars

\* a lowercase address let through by an uppercase entry of a list whose
\* other entry is not in the address
C17_Witness ==
    \E i \in Slots :
        /\ runs[i].kind = "forward" /\ runs[i].pc = "deliver"
        /\ inbox[runs[i].uid].addr = << "u", "@", "x" >>
        /\ config.allowedSenders = << << "U", "@", "X" >>, << "u", "@", "Y" >> >>
        /\ ~EntryInAddress(config.allowedSenders[2], inbox[runs[i].uid].addr)

\* the first rule, in the configured order, whose tag is in the subject
FirstMatching(subject, rules) ==
    IF \E k \in 1..Len(rules) : TagInSubject(rules[k], subject)
    THEN << rules[CHOOSE k \in 1..Len(rules) :
                      /\ TagInSubject(rules[k], subject)
                      /\ \A j \in 1..(k - 1) : ~TagInSubject(rules[j], subject)] >>
    ELSE << >>

\* C18: matchRule returns the first rule in the configured order whose
\* lowercased tag is a substring of the lowercased subject, and null when
\* there is none: never a later rule when an earlier one matches.  The
\* message is forwarded to the recipients of that rule.
C18_FirstMatchWins ==
    /\ [](\A u \in Uids :
             MatchRule(SubjectOf(inbox[u]), config)
                 = FirstMatching(SubjectOf(inbox[u]), config.rules))
    /\ [][\A i \in Slots :
             (Starts(i) /\ runs'[i].kind \in { "forward", "nomatch" }) =>
                 LET first == FirstMatching(SubjectOf(inbox[runs'[i].uid]), config.rules)
                 IN  IF first = << >> THEN runs'[i].kind = "nomatch"
                     ELSE /\ runs'[i].kind = "forward"
                          /\ runs'[i].task.matchedTag = first[1].tag
                          /\ runs'[i].task.recipients = first[1].recipients
                          /\ Len(runs'[i].rcpt) = Len(first[1].recipients)
                          /\ \A k \in 1..Len(runs'[i].rcpt) :
                                 runs'[i].rcpt[k].email = first[1].recipients[k]
       ]_vars

\* subject "Pi" under the rules P, pi, I: the rule P is taken although the
\* later tag pi is longer and also in the subject
C18_Witness ==
    \E i \in Slots :
        /\ runs[i].pc = "deliver" /\ runs[i].kind = "forward"
        /\ inbox[runs[i].uid].subject = << "P", "i" >>
        /\ config.rules = ConfigRules
        /\ TagInSubject(config.rules[2], << "P", "i" >>)
        /\ runs[i].task.matchedTag = << "P" >>
        /\ Len(runs[i].rcpt) = 2

\* C19: at most one processEmail run is between its start and its end at any
\* moment: the listener starts no run while another waits on a delivery, a
\* backoff timer or the notification.
C19_OneRunAtATime ==
    Cardinality({ i \in Slots : runs[i].pc \in { "deliver", "notify" } }) <= 1

\* the notification sends made so far by the runs for mailbox item u
NotificationSends(u) ==
    SumSeq([i \in Slots |-> IF runs[i].uid = u THEN runs[i].notifCalls ELSE 0])

\* C20: for a message that matches a rule and has a sender address exactly one
\* notification send is made, never a second, and only once every recipient's
\* delivery has its final outcome (and the identifier has been appended); for
\* a skipped, disallowed or unmatched message none is made.
C20_ExactlyOneNotification ==
    /\ restarts = 0 => \A u \in Uids : NotificationSends(u) <= 1
    /\ \A i \in Slots :
           /\ runs[i].kind \in { "skip", "denied", "nomatch" } => runs[i].notifCalls = 0
           /\ (runs[i].kind = "forward" /\ runs[i].pc = "deliver") => runs[i].notifCalls = 0
           /\ (/\ runs[i].kind = "forward" /\ runs[i].pc \in { "notify", "done", "fault" }
               /\ runs[i].fault # "append") =>
                  runs[i].notifCalls = (IF inbox[runs[i].uid].addr # << >> THEN 1 ELSE 0)

\* C21: for a matched message with no sender address no notification send is
\* made, and that is no error: once the append to the file has succeeded the
\* run ends normally, the identifier is in the dedup set and the file, and the
\* run's task is put into Task History.
C21_NoSenderAddress ==
    /\ [](\A i \in Slots :
             (runs[i].kind = "forward" /\ inbox[runs[i].uid].addr = << >>) =>
                 /\ runs[i].notifCalls = 0 /\ ~runs[i].replyOutstanding
                 /\ runs[i].fault \in { "none", "append" }
                 /\ runs[i].pc = "done" =>
                        /\ runs[i].appended /\ runs[i].marked
                        /\ InFile(file, runs[i].messageId))
    /\ [][\A i \in Slots :
             (/\ runs[i].pc = "notify" /\ runs'[i].pc # "notify" /\ restarts' = restarts
              /\ inbox[runs[i].uid].addr = << >>) =>
                 /\ runs'[i].pc = "done"
                 /\ tasks'[1] = runs[i].task
                 /\ runs[i].messageId \in forwardedIds'
       ]_vars

C21_Witness ==
    \E i \in Slots :
        /\ runs[i].kind = "forward" /\ runs[i].pc = "done"
        /\ inbox[runs[i].uid].addr = << >>
        /\ runs[i].notifCalls = 0 /\ runs[i].appended
        /\ runs[i].messageId \in forwardedIds
        /\ Len(tasks) = 1 /\ tasks[1].subject = inbox[runs[i].uid].subject

\* C22: when the transport answers every call and every backoff timer fires,
\* every processEmail run that is waiting on a delivery, a backoff or the
\* notification reaches its end (or the process is restarted), and no
\* recipient is sent to more than maxAttempts times.
C22_RunsTerminate ==
    /\ [](\A i \in Slots : \A k \in 1..Len(runs[i].rcpt) :
             /\ runs[i].rcpt[k].calls <= MaxAttempts(config)
             /\ runs[i].rcpt[k].attempt <= (IF MaxAttempts(config) > 1
                                            THEN MaxAttempts(config) ELSE 1))
    /\ \A i \in Slots :
           (runs[i].pc \in { "deliver", "notify" })
               ~> (runs[i].pc \in { "done", "fault", "idle" })

\* a run that went through every retry for both recipients and ended
C22_Witness ==
    \E i \in Slots :
        /\ runs[i].kind = "forward" /\ runs[i].pc = "done" /\ restarts = 0
        /\ config.retryCount = << >>
        /\ Len(tasks) = 1 /\ tasks[1].error = << 2, "/", 2, " failed" >>

\* C23: no step of the running pipeline takes an identifier out of the
\* in-memory dedup set, and none takes anything out of the file: the set is a
\* superset of what it was, and the file is what it was with, at most, lines
\* added at its end.
C23_DedupOnlyGrows ==
    [][/\ restarts' = restarts => forwardedIds \subseteq forwardedIds'
       /\ Len(file) <= Len(file')
       /\ SubSeq(file', 1, Len(file)) = file
       /\ LoadForwardedIds(file) \subseteq LoadForwardedIds(file')]_vars

\* two identifiers have been added, one after the other
C23_Witness ==
    /\ restarts = 0
    /\ Cardinality(forwardedIds) = 2
    /\ Len(file) = 4
    /\ LoadForwardedIds(file) = forwardedIds

\* C24: the notification handed to the transport agrees with the task of the
\* run: its subject says full success exactly when the task's status is
\* success; the success and failure counts of its text add up to the number
\* of results and are the counts of the task's error summary; and the task
\* put into Task History when the send returns is that task.
C24_NotificationAgreesWithTask ==
    /\ [](\A i \in Slots :
             (runs[i].pc = "notify" /\ runs[i].notifCalls = 1) =>
                 LET n == runs[i].notif[1]
                     t == runs[i].task
                     total == Len(runs[i].results)
                 IN  /\ n.to = inbox[runs[i].uid].addr
                     /\ n.subject[2] \in { LabelAllSuccess, LabelPartFailed }
                     /\ (n.subject[2] = LabelAllSuccess) <=> (t.status = "success")
                     /\ n.text.stats[2] + n.text.stats[4] = total
                     /\ n.text.stats[6] = total
                     /\ Len(n.text.lines) = total
                     /\ t.status = "success" => n.text.stats[4] = 0
                     /\ t.status = "failed" =>
                            t.error = << n.text.stats[4], "/", total, " failed" >>)
    /\ [][\A i \in Slots :
             (runs[i].pc = "notify" /\ runs'[i].pc = "done") => tasks'[1] = runs[i].task
       ]_vars

\* one of two recipients failed: "partly failed", 1 success, 1 failure, and
\* the task failed with "1/2 failed"
C24_Witness ==
    \E i \in Slots :
        /\ runs[i].pc = "notify" /\ runs[i].notifCalls = 1
        /\ runs[i].notif[1].subject[2] = LabelPartFailed
        /\ runs[i].notif[1].text.stats[2] = 1
        /\ runs[i].notif[1].text.stats[4] = 1
        /\ runs[i].task.status = "failed"
        /\ runs[i].task.error = << 1, "/", 2, " failed" >>

\* C25: the ids of the entries of Task History are strictly decreasing from
\* head to tail, also when runs overlap, so the entry removed on overflow is
\* the one with the smallest id.
C25_TaskIdsDecreasing ==
    \A n \in 1..(Len(tasks) - 1) : tasks[n].id > tasks[n + 1].id

\* C26: a message is flagged \Seen only once a processEmail run for it has
\* ended successfully, so a message whose run did not complete stays unseen.
C26_SeenOnlyAfterSuccess ==
    [][\A u \in Uids :
          (flags[u] # "seen" /\ flags'[u] = "seen") =>
              \E i \in Slots : runs'[i].uid = u /\ runs'[i].pc = "done"]_vars

\* C27: a message without an identifier is never skipped: every run for it
\* goes through the filter and the matcher and, when both pass, the delivery,
\* under an identifier that is in neither the dedup set nor the file; and the
\* run adds that identifier to both.
C27_NoIdNeverSkipped ==
    [][\A i \in Slots :
          /\ (Starts(i) /\ inbox[runs'[i].uid].messageId = "") =>
                 LET mail == inbox[runs'[i].uid]
                     allowed == OnAllowList(mail.addr, config.allowedSenders)
                     first == FirstMatching(SubjectOf(mail), config.rules)
                 IN  /\ runs'[i].kind # "skip" /\ ~runs'[i].known
                     /\ runs'[i].messageId # ""
                     /\ runs'[i].messageId \notin forwardedIds
                     /\ ~InFile(file, runs'[i].messageId)
                     /\ runs'[i].kind = (IF ~allowed THEN "denied"
                                         ELSE IF first = << >> THEN "nomatch"
                                         ELSE "forward")
                     /\ runs'[i].kind = "forward" =>
                            Len(runs'[i].rcpt) = Len(first[1].recipients)
          /\ (/\ runs'[i].uid \in Uids /\ inbox[runs'[i].uid].messageId = ""
              /\ ~runs[i].marked /\ runs'[i].marked) =>
                 /\ runs'[i].messageId \notin forwardedIds
                 /\ runs'[i].messageId \in forwardedIds'
                 /\ runs'[i].fault # "append" =>
                        file' = file \o << runs'[i].messageId, NL >>
       ]_vars

\* the message has been presented twice and forwarded twice, each time
\* under its own identifier
C27_Witness ==
    /\ { "t1", "t2" } \subseteq forwardedIds
    /\ InFile(file, "t1") /\ InFile(file, "t2")
    /\ \E i \in Slots :
           /\ runs[i].messageId = "t2" /\ runs[i].kind = "forward"
           /\ runs[i].pc = "done" /\ inbox[runs[i].uid].messageId = ""

\* C28: whatever retryCount is configured, 0 included, a recipient has a
\* failed result only after at least one transport send to it, and the
\* attempts of a result are the sends made to that recipient.
C28_AtLeastOneSend ==
    \A i \in Slots : \A k \in 1..Len(runs[i].rcpt) :
        LET p == runs[i].rcpt[k]
        IN  p.st = "done" =>
                /\ p.result[1].attempts = p.calls
                /\ ~p.result[1].success => p.calls >= 1

\* C29: whatever 'error' and 'end' events the mailbox connection has had, at
\* most one listener is connected or scheduled to reconnect, and so a newly
\* arrived message is fetched by at most one listener.
C29_AtMostOneListener ==
    /\ Cardinality({ j \in DOMAIN imaps : imaps[j].st \notin { "lost", "ended" } })
           + reconnects <= 1
    /\ Cardinality(Listening) <= 1

\* C30: a recipient that has not reached its final outcome is never held up
\* by another recipient of the same message: while its sendMail is
\* outstanding the transport's answer can be taken, whatever the others are
\* doing; when its own backoff delay has passed its timer can fire; and while
\* its delay has not passed, time can pass or a timer that is due can fire.
C30_NoMutualBlocking ==
    \A i \in Slots : runs[i].pc = "deliver" =>
        \A k \in 1..Len(runs[i].rcpt) :
            LET p == runs[i].rcpt[k]
            IN  /\ p.st = "sending" =>
                       /\ ENABLED SendOk(i, k)
                       /\ \A err \in Errors : ENABLED SendFail(i, k, err)
                /\ (p.st = "waiting" /\ p.waited >= p.delay) => ENABLED TimerFire(i, k)
                /\ (p.st = "waiting" /\ p.waited < p.delay) =>
                       \/ ENABLED Tick
                       \/ \E w \in Waiting : ENABLED TimerFire(w[1], w[2])

\* the first recipient is half way through its second backoff while the
\* second, whose first send failed later, has started its second attempt
C30_Witness ==
    \E i \in Slots :
        /\ runs[i].pc = "deliver" /\ Len(runs[i].rcpt) = 2
        /\ runs[i].rcpt[1].st = "waiting" /\ runs[i].rcpt[1].attempt = 2
        /\ runs[i].rcpt[1].waited = 1000 /\ runs[i].rcpt[1].delay = 2000
        /\ runs[i].rcpt[2].st = "sending" /\ runs[i].rcpt[2].attempt = 2
        /\ ENABLED SendOk(i, 2)

====
